---- MODULE Spec2Model ----
(***************************************************************************)
(* Model of the parts of the driver and container library:                 *)
(*                                                                         *)
(*  - yrgo::container::List<T>, the doubly linked list, together with the  *)
(*    malloc heap its nodes live on.  A list object is the record          *)
(*    [first_, last_, size_].  The heap is the record [previous, next,     *)
(*    data, allocated]: the three fields of every Node block and the set   *)
(*    of blocks malloc has handed out and free has not taken back.  Every  *)
(*    member function is an operator from a list and a heap to the set of  *)
(*    its possible outcomes [list, heap, ret, ub]; the choice in the set   *)
(*    is the block malloc returns (or its failure) and, for an access      *)
(*    through a null pointer, what the machine makes of it.                *)
(*                                                                         *)
(*  - yrgo::driver::GPIO: the objects [hardware_, pin_], the static        *)
(*    reservation list pin_list_ and the registers of the I/O ports.       *)
(*                                                                         *)
(*  - yrgo::driver::Timer: the objects [hardware_, circuit_, max_count_,   *)
(*    enabled_], the static reservation list timer_list_, the registers    *)
(*    of the three circuits and the counters their interrupts increment.   *)
(*                                                                         *)
(*  - the demo program of main.cpp: its static GPIO and Timer objects, the *)
(*    callback routines and the interrupt service routines that call them. *)
(*                                                                         *)
(*  - yrgo::driver::eeprom: the bytes of the EEPROM and the addresses the  *)
(*    driver accesses; a value of n bytes is the sequence of its bytes.    *)
(*                                                                         *)
(*  - yrgo::container::Vector<T>: the objects [data_, size_] and the       *)
(*    memory blocks of malloc and realloc.                                 *)
(*                                                                         *)
(* Each part has its own clients (Spec and SpecCopy for the list, SpecGpio *)
(* for GPIO, SpecTimer and SpecElapsed for Timer, SpecDemo for the demo    *)
(* program, SpecEeprom for the EEPROM, SpecVector for Vector); a client of *)
(* one part leaves the state of the others alone.                          *)
(***************************************************************************)
EXTENDS Integers, Sequences, FiniteSets, TLC

\* Number of Node blocks the heap can hold at once.
MaxNodes == 3
\* The element type T holds the values 1..MaxValue.
MaxValue == 2
\* Largest new_size passed to Resize.
MaxNewSize == 3

\* Number of GPIO objects of the client.
NumDevices == 2
\* Number of Timer objects of the client.
NumTimers == 2
\* Largest elapse_time_ms passed to a Timer.
MaxElapseTime == 1
\* Number of interrupts counted and not yet reset by Elapsed.
MaxCounter == 8

\* The addresses a client passes to the EEPROM driver reach from
\* AddressMargin below the end of the EEPROM to past it.
AddressMargin == 4

\* The largest size a client gives a Vector.
MaxVectorSize == 2
\* Number of memory blocks malloc and realloc can hand out at a time.
MaxBlocks == 3

Nodes == 1..MaxNodes
Devices == 1..NumDevices
TimerIds == 1..NumTimers
Values == 1..MaxValue

\* nullptr.
Null == 0
\* Indeterminate content of a block that is not allocated.
Undef == -1

Pointers == Nodes \cup {Null}

VARIABLES
    list,   \* the list L: [first_, last_, size_]
    list2,  \* the list L2 that is copy-constructed from L
    live2,  \* L2 has been constructed and not yet destroyed
    heap,   \* [previous, next, data, allocated]
    ub,     \* "none", or the undefined behaviour the last call ran into
    op,     \* the last call: [name, pos, value, new_size], and the size_
            \* of the list when it was made
    ret,    \* its return value: "true", "false", "void" or "fault"
    round,  \* after a PushBack that returned true ("pushed"), and after a
            \* PopBack that directly follows one ("popped"): the list and
            \* the heap as they were before that PushBack
    pushed, \* while L has only been pushed to since it was last empty:
            \* the values of the successful PushFront and PushBack calls
    copied  \* while L2 lives: the values L held when L2 was copied from
            \* it, and whether Copy returned true

VARIABLES
    pin_list_,   \* GPIO::pin_list_: the set of its bits that are 1
    gpio,        \* the GPIO objects: [hardware_, pin_]
    io,          \* the registers of the I/O ports
    held,        \* per GPIO object: the pin of its last Init that returned
                 \* true, NoPin after Disable
    sei,         \* the global interrupt flag
    timer_list_, \* Timer::timer_list_: the set of its bits that are 1
    timers,      \* the Timer objects: [hardware_, circuit_, max_count_,
                 \* enabled_]
    tlive,       \* per Timer object: constructed and not yet destroyed
    tregs,       \* the registers of the timer circuits
    counter      \* Counter::timer0, timer1, timer2

VARIABLES
    callback_routines,        \* the callback routines of the I/O ports
    timer_callback_routines,  \* the callback routines of the timer circuits
    since        \* the demo program: the timer 0 overflow interrupts taken
                 \* since the last ButtonCallback

demovars == <<callback_routines, timer_callback_routines, since>>

VARIABLES
    eeprom,      \* the bytes of the EEPROM
    edata,       \* the variable the client passes to eeprom::Write or Read
    accessed     \* the byte addresses the last Write or Read stored in EEAR

eepromvars == <<eeprom, edata, accessed>>

VARIABLES
    vectors,     \* data_ and size_ of the Vector objects
    blocks       \* the memory blocks of malloc and realloc

vectorvars == <<vectors, blocks>>
othervars == <<demovars, eepromvars, vectorvars>>

listvars == <<list, list2, live2, heap, round, pushed, copied>>
gpiovars == <<pin_list_, gpio, io, held>>
timervars == <<timer_list_, timers, tlive, tregs, counter>>

vars == <<list, list2, live2, heap, ub, op, ret, round, pushed, copied,
          gpiovars, timervars, sei, othervars>>

EmptyList == [first_ |-> Null, last_ |-> Null, size_ |-> 0]

EmptyHeap ==
    [previous  |-> [n \in Nodes |-> Undef],
     next      |-> [n \in Nodes |-> Undef],
     data      |-> [n \in Nodes |-> Undef],
     allocated |-> {}]

Out(l, h, r, u) == [list |-> l, heap |-> h, ret |-> r, ub |-> u]

-----------------------------------------------------------------------------
(* The heap: malloc, free and the stores through Node pointers.            *)

\* What malloc can return: a null pointer, or the lowest block that is free
\* (the allocator is first fit).
MallocResults(h) ==
    {Null} \cup {n \in Nodes \ h.allocated :
                    \A m \in Nodes \ h.allocated : n <= m}

\* Node::New with n the pointer malloc returned.
NodeNew(h, value, n) ==
    IF n = Null THEN h
    ELSE [previous  |-> [h.previous EXCEPT ![n] = Null],
          next      |-> [h.next EXCEPT ![n] = Null],
          data      |-> [h.data EXCEPT ![n] = value],
          allocated |-> h.allocated \cup {n}]

\* Node::Delete: free(self); the content of the block is indeterminate.
NodeDelete(h, n) ==
    IF n \notin Nodes THEN h
    ELSE [previous  |-> [h.previous EXCEPT ![n] = Undef],
          next      |-> [h.next EXCEPT ![n] = Undef],
          data      |-> [h.data EXCEPT ![n] = Undef],
          allocated |-> h.allocated \ {n}]

\* n->previous = v; a store through a pointer to no block reaches no block.
StorePrevious(h, n, v) ==
    IF n \in Nodes THEN [h EXCEPT !.previous[n] = v] ELSE h

\* n->next = v.
StoreNext(h, n, v) ==
    IF n \in Nodes THEN [h EXCEPT !.next[n] = v] ELSE h

\* n->previous and n->next; what is read through a pointer to no block is
\* indeterminate.
LoadPrevious(h, n) == IF n \in Nodes THEN h.previous[n] ELSE Undef
LoadNext(h, n) == IF n \in Nodes THEN h.next[n] ELSE Undef

-----------------------------------------------------------------------------
(* Observers.                                                              *)

\* The nodes met from n by following next until a pointer to no block.
RECURSIVE WalkNext(_, _, _)
WalkNext(h, n, fuel) ==
    IF n \notin Nodes \/ fuel = 0 THEN <<>>
    ELSE <<n>> \o WalkNext(h, h.next[n], fuel - 1)

\* The nodes met from n by following previous.
RECURSIVE WalkPrevious(_, _, _)
WalkPrevious(h, n, fuel) ==
    IF n \notin Nodes \/ fuel = 0 THEN <<>>
    ELSE <<n>> \o WalkPrevious(h, h.previous[n], fuel - 1)

\* for (auto i{begin()}; i != end(); ++i): the nodes of l, front to back.
NodesOf(l, h) == WalkNext(h, l.first_, MaxNodes + 1)

\* The values front-to-back iteration dereferences to.
ValuesOf(l, h) == [i \in 1..Len(NodesOf(l, h)) |-> h.data[NodesOf(l, h)[i]]]

Range(s) == {s[i] : i \in 1..Len(s)}

\* The iterator after k steps of operator++ from n (Undef once it left the
\* blocks of the heap).
RECURSIVE StepNext(_, _, _)
StepNext(h, n, k) ==
    IF k = 0 THEN n
    ELSE IF n \notin Nodes THEN Undef
    ELSE StepNext(h, h.next[n], k - 1)

\* The iterator after k steps of operator-- from n.
RECURSIVE StepPrevious(_, _, _)
StepPrevious(h, n, k) ==
    IF k = 0 THEN n
    ELSE IF n \notin Nodes THEN Undef
    ELSE StepPrevious(h, h.previous[n], k - 1)

\* begin() and end().
Begin(l) == l.first_
End == Null

\* Iterator::operator++ and operator-- on an iterator at node_.
Increment(h, node_) == LoadNext(h, node_)
Decrement(h, node_) == LoadPrevious(h, node_)

\* operator++ applied k times.
RECURSIVE Increments(_, _, _)
Increments(h, node_, k) ==
    IF k = 0 THEN node_ ELSE Increments(h, Increment(h, node_), k - 1)

\* Iterator::operator+= as it would be with the loop condition
\* i <= num_increments.
RECURSIVE PlusAssignOneMore(_, _, _, _)
PlusAssignOneMore(h, node_, num_increments, i) ==
    IF i <= num_increments
    THEN PlusAssignOneMore(h, LoadNext(h, node_), num_increments, i + 1)
    ELSE node_

\* Iterator::operator+=: the loop from i on.
RECURSIVE PlusAssign(_, _, _, _)
PlusAssign(h, node_, num_increments, i) ==
    IF i < num_increments
    THEN PlusAssign(h, LoadNext(h, node_), num_increments, i + 1)
    ELSE node_

\* Iterator::operator-=: the loop from i on.
RECURSIVE MinusAssign(_, _, _, _)
MinusAssign(h, node_, num_increments, i) ==
    IF i < num_increments
    THEN MinusAssign(h, LoadPrevious(h, node_), num_increments, i + 1)
    ELSE node_

\* Iterator::operator== and operator*.
Equal(node_, other) == node_ = other
Deref(h, node_) == IF node_ \in Nodes THEN h.data[node_] ELSE Undef

-----------------------------------------------------------------------------
(* Member functions of List.                                               *)

\* size_t arithmetic is modulo 2^16 on the target.
SizeModulus == 65536
Inc(n) == (n + 1) % SizeModulus
Dec(n) == (n + SizeModulus - 1) % SizeModulus

NullDeref(ps) == IF ps \subseteq Nodes THEN "none" ELSE "null_deref"

\* RemoveAllNodes as it would be with the loop condition on the next link:
\* the last node is never deleted.
RECURSIVE RemoveAllNodesButLast(_, _)
RemoveAllNodesButLast(h, i) ==
    IF i = Null THEN [heap |-> h, ub |-> "none"]
    ELSE IF i \notin h.allocated THEN [heap |-> h, ub |-> "use_after_free"]
    ELSE IF h.next[i] = Null THEN [heap |-> h, ub |-> "none"]
    ELSE RemoveAllNodesButLast(NodeDelete(h, i), h.next[i])

\* RemoveAllNodes: from begin(), read the next link, delete the node, go on
\* until end().  Yields the heap and whether a freed block was touched.
RECURSIVE RemoveAllNodes(_, _)
RemoveAllNodes(h, i) ==
    IF i = Null THEN [heap |-> h, ub |-> "none"]
    ELSE IF i \notin h.allocated THEN [heap |-> h, ub |-> "use_after_free"]
    ELSE RemoveAllNodes(NodeDelete(h, i), h.next[i])

Clear(l, h) ==
    LET r == RemoveAllNodes(h, Begin(l))
    IN  {Out(EmptyList, r.heap, "void", r.ub)}

\* PushFront as it would be if it counted the element before the check of
\* the new node.
PushFrontCountsFirst(l, h, value) ==
    { LET node1 == n
          h1 == NodeNew(h, value, n)
      IN  IF node1 = Null
          THEN Out([l EXCEPT !.size_ = Inc(l.size_)], h, "false", "none")
          ELSE IF l.size_ = 0
          THEN Out([first_ |-> node1, last_ |-> node1, size_ |-> Inc(l.size_)],
                   h1, "true", "none")
          ELSE LET node2 == l.first_
                   h2 == StoreNext(h1, node1, node2)
                   h3 == StorePrevious(h2, node2, node1)
               IN  Out([l EXCEPT !.first_ = node1, !.size_ = Inc(l.size_)],
                       h3, "true", NullDeref({node2}))
      : n \in MallocResults(h) }

PushFront(l, h, value) ==
    { LET node1 == n
          h1 == NodeNew(h, value, n)
      IN  IF node1 = Null THEN Out(l, h, "false", "none")
          ELSE IF l.size_ = 0
          THEN Out([first_ |-> node1, last_ |-> node1, size_ |-> Inc(l.size_)],
                   h1, "true", "none")
          ELSE LET node2 == l.first_
                   h2 == StoreNext(h1, node1, node2)
                   h3 == StorePrevious(h2, node2, node1)
               IN  Out([l EXCEPT !.first_ = node1, !.size_ = Inc(l.size_)],
                       h3, "true", NullDeref({node2}))
      : n \in MallocResults(h) }

\* PushBack as it would be if it spliced at the front.
PushBackAtFront(l, h, value) == PushFront(l, h, value)

PushBack(l, h, value) ==
    { LET node2 == n
          h1 == NodeNew(h, value, n)
      IN  IF node2 = Null THEN Out(l, h, "false", "none")
          ELSE IF l.size_ = 0
          THEN Out([first_ |-> node2, last_ |-> node2, size_ |-> Inc(l.size_)],
                   h1, "true", "none")
          ELSE LET node1 == l.last_
                   h2 == StoreNext(h1, node1, node2)
                   h3 == StorePrevious(h2, node2, node1)
               IN  Out([l EXCEPT !.last_ = node2, !.size_ = Inc(l.size_)],
                       h3, "true", NullDeref({node1}))
      : n \in MallocResults(h) }

\* Insert.  node1 is the previous link of the node at the iterator; when it
\* is null, `node1->next` is a load through a null pointer: the access
\* either faults there (the new node stays allocated, nothing else was
\* stored), or the machine has a flat address space, the load yields some
\* pointer and the stores through null reach no node.
Insert(l, h, iterator, value) ==
    IF iterator = Null THEN {Out(l, h, "false", "none")}
    ELSE UNION {
        IF n = Null THEN {Out(l, h, "false", "none")}
        ELSE LET node2 == n
                 h1 == NodeNew(h, value, n)
                 node1 == LoadPrevious(h1, iterator)
                 loaded == IF node1 \in Nodes THEN {LoadNext(h1, node1)}
                           ELSE Pointers
             IN  { LET h2 == StoreNext(h1, node1, node2)
                       h3 == StorePrevious(h2, node2, node1)
                       h4 == StoreNext(h3, node2, node3)
                       h5 == StorePrevious(h4, node3, node2)
                   IN  Out([l EXCEPT !.size_ = Inc(l.size_)], h5, "true",
                           NullDeref({node1, node3}))
                   : node3 \in loaded }
                 \cup
                 (IF node1 \in Nodes THEN {}
                  ELSE {Out(l, h1, "fault", "null_deref")})
        : n \in MallocResults(h) }

\* PopFront as it would be if only the empty list were cleared.
PopFrontClearsEmptyOnly(l, h) ==
    IF l.size_ < 1 THEN Clear(l, h)
    ELSE LET node1 == l.first_
             node2 == LoadNext(h, node1)
             h1 == StorePrevious(h, node2, Null)
             h2 == NodeDelete(h1, node1)
         IN  {Out([l EXCEPT !.first_ = node2, !.size_ = Dec(l.size_)],
                  h2, "void", NullDeref({node1, node2}))}

PopFront(l, h) ==
    IF l.size_ <= 1 THEN Clear(l, h)
    ELSE LET node1 == l.first_
             node2 == LoadNext(h, node1)
             h1 == StorePrevious(h, node2, Null)
             h2 == NodeDelete(h1, node1)
         IN  {Out([l EXCEPT !.first_ = node2, !.size_ = Dec(l.size_)],
                  h2, "void", NullDeref({node1, node2}))}

\* PopBack as it would be without `node1->next = nullptr`.
PopBackKeepsLink(l, h) ==
    IF l.size_ <= 1 THEN Clear(l, h)
    ELSE LET node2 == l.last_
             node1 == LoadPrevious(h, node2)
             h2 == NodeDelete(h, node2)
         IN  {Out([l EXCEPT !.last_ = node1, !.size_ = Dec(l.size_)],
                  h2, "void", NullDeref({node1, node2}))}

PopBack(l, h) ==
    IF l.size_ <= 1 THEN Clear(l, h)
    ELSE LET node2 == l.last_
             node1 == LoadPrevious(h, node2)
             h1 == StoreNext(h, node1, Null)
             h2 == NodeDelete(h1, node2)
         IN  {Out([l EXCEPT !.last_ = node1, !.size_ = Dec(l.size_)],
                  h2, "void", NullDeref({node1, node2}))}

\* Remove.  node1 and node3 are the links of the node at the iterator; a
\* null one makes `node1->next = node3` or `node3->previous = node1` a store
\* through a null pointer: the store either faults there, or reaches no
\* node and the function runs on.
RemoveNode(l, h, iterator) ==
         LET node2 == iterator
             node1 == LoadPrevious(h, node2)
             node3 == LoadNext(h, node2)
             h1 == StoreNext(h, node1, node3)
             h2 == StorePrevious(h1, node3, node1)
             h3 == NodeDelete(h2, node2)
         IN  {Out([l EXCEPT !.size_ = Dec(l.size_)], h3, "true",
                  NullDeref({node1, node3}))}
             \cup
             (IF node1 \notin Nodes THEN {Out(l, h, "fault", "null_deref")}
              ELSE IF node3 \notin Nodes
              THEN {Out(l, h1, "fault", "null_deref")}
              ELSE {})

\* Remove as it would be if it reported success for the end-sentinel.
RemoveReportsSentinel(l, h, iterator) ==
    IF iterator = Null THEN {Out(l, h, "true", "none")}
    ELSE RemoveNode(l, h, iterator)

Remove(l, h, iterator) ==
    IF iterator = Null THEN {Out(l, h, "false", "none")}
    ELSE RemoveNode(l, h, iterator)

\* The first loop of Resize as it would be if it pushed at the front.
RECURSIVE ResizeGrowAtFront(_, _, _, _)
ResizeGrowAtFront(l, h, new_size, start_value) ==
    IF ~(l.size_ < new_size) THEN {Out(l, h, "true", "none")}
    ELSE UNION {
        IF r.ret = "false" \/ r.ub # "none" THEN {r}
        ELSE ResizeGrowAtFront(r.list, r.heap, new_size, start_value)
        : r \in PushFront(l, h, start_value) }

\* The first loop of Resize as it would be if it stopped at a failed
\* PushBack without reporting it.
RECURSIVE ResizeGrowSilent(_, _, _, _)
ResizeGrowSilent(l, h, new_size, start_value) ==
    IF ~(l.size_ < new_size) THEN {Out(l, h, "true", "none")}
    ELSE UNION {
        IF r.ret = "false" \/ r.ub # "none" THEN {[r EXCEPT !.ret = "true"]}
        ELSE ResizeGrowSilent(r.list, r.heap, new_size, start_value)
        : r \in PushBack(l, h, start_value) }

\* The first loop of Resize.
RECURSIVE ResizeGrow(_, _, _, _)
ResizeGrow(l, h, new_size, start_value) ==
    IF ~(l.size_ < new_size) THEN {Out(l, h, "true", "none")}
    ELSE UNION {
        IF r.ret = "false" \/ r.ub # "none" THEN {r}
        ELSE ResizeGrow(r.list, r.heap, new_size, start_value)
        : r \in PushBack(l, h, start_value) }

\* The second loop of Resize as it would be if it popped at the back.
RECURSIVE ResizeShrinkAtBack(_, _, _)
ResizeShrinkAtBack(l, h, new_size) ==
    IF ~(l.size_ > new_size) THEN {Out(l, h, "true", "none")}
    ELSE UNION {
        IF r.ub # "none" THEN {r}
        ELSE ResizeShrinkAtBack(r.list, r.heap, new_size)
        : r \in PopBack(l, h) }

\* The second loop of Resize.
RECURSIVE ResizeShrink(_, _, _)
ResizeShrink(l, h, new_size) ==
    IF ~(l.size_ > new_size) THEN {Out(l, h, "true", "none")}
    ELSE UNION {
        IF r.ub # "none" THEN {r}
        ELSE ResizeShrink(r.list, r.heap, new_size)
        : r \in PopFront(l, h) }

Resize(l, h, new_size, start_value) ==
    UNION {
        IF r.ret = "false" \/ r.ub # "none" THEN {r}
        ELSE ResizeShrink(r.list, r.heap, new_size)
        : r \in ResizeGrow(l, h, new_size, start_value) }

\* *iterator = value, through Iterator::operator*.
Assign(l, h, iterator, value) ==
    {Out(l, IF iterator \in Nodes THEN [h EXCEPT !.data[iterator] = value]
            ELSE h,
         "void", NullDeref({iterator}))}

-----------------------------------------------------------------------------
(* Copy construction.                                                      *)

\* source[i] for an index i: the element at index i, front to back.
At(source, h, i) == ValuesOf(source, h)[i + 1]

\* The loop of Copy(List& source).
RECURSIVE CopyLoop(_, _, _, _)
CopyLoop(l, h, source, i) ==
    IF ~(i < source.size_) THEN {Out(l, h, "true", "none")}
    ELSE UNION {
        IF r.ret = "false" \/ r.ub # "none" THEN {r}
        ELSE CopyLoop(r.list, r.heap, source, i + 1)
        : r \in PushBack(l, h, At(source, h, i)) }

Copy(l, h, source) ==
    UNION { IF r.ub # "none" THEN {r}
            ELSE CopyLoop(r.list, r.heap, source, 0)
            : r \in Clear(l, h) }

-----------------------------------------------------------------------------
(* The GPIO driver: bit operations, the static reservation list and the    *)
(* registers of the three I/O ports.  A register is the set of its bits    *)
(* that are 1.                                                             *)

\* utils::Set, utils::Clear and utils::Read on a register of `width` bits:
\* the mask 1ULL << bit is truncated to the type of the register.
UtilsSet(reg, bit, width) == IF bit < width THEN reg \cup {bit} ELSE reg
UtilsClear(reg, bit, width) == reg \ {bit}
UtilsRead(reg, bit, width) == bit < width /\ bit \in reg

\* Widths of uint8_t registers and of the uint32_t pin_list_.
RegWidth == 8
PinListWidth == 32

\* GPIO::Port.
D0 == 0
D7 == 7
B0 == 8
B5 == 13
C0 == 14
C5 == 19

kNumPins == 20
kPinMin == 0
kPinMax == kNumPins - 1

\* The addresses of the static Hardware structures.
AddrPinB == 1
AddrPinC == 2
AddrPinD == 3

pinb_ ==
    [dir_reg |-> "DDRB", port_reg |-> "PORTB", pin_reg |-> "PINB",
     pcmsk_reg |-> "PCMSK0", pcicr_bit |-> "PCIE0", io_port |-> "kB"]

pinc_ ==
    [dir_reg |-> "DDRC", port_reg |-> "PORTC", pin_reg |-> "PINC",
     pcmsk_reg |-> "PCMSK1", pcicr_bit |-> "PCIE1", io_port |-> "kC"]

pind_ ==
    [dir_reg |-> "DDRD", port_reg |-> "PORTD", pin_reg |-> "PIND",
     pcmsk_reg |-> "PCMSK2", pcicr_bit |-> "PCIE2", io_port |-> "kD"]

\* *hardware_ for a hardware_ that is not null.
Hardware(hardware_) ==
    CASE hardware_ = AddrPinB -> pinb_
      [] hardware_ = AddrPinC -> pinc_
      [] hardware_ = AddrPinD -> pind_

IoRegisters ==
    {"DDRB", "PORTB", "PCMSK0", "DDRC", "PORTC", "PCMSK1",
     "DDRD", "PORTD", "PCMSK2", "PCICR"}

\* A GPIO object after GPIO(void) = default.
NoDevice == [hardware_ |-> Null, pin_ |-> 0]

Direction == {"kInput", "kInputPullup", "kOutput"}

GpioOut(dev, pl, regs, r, u) ==
    [dev |-> dev, pin_list_ |-> pl, io |-> regs, ret |-> r, ub |-> u]

PinNumberValid(pin) == pin >= kPinMin /\ pin <= kPinMax
PinConnectedToPortD(pin) == pin >= D0 /\ pin <= D7
PinConnectedToPortB(pin) == pin >= B0 /\ pin <= B5
PinConnectedToPortC(pin) == pin >= C0 /\ pin <= C5

PinReserved(pl, pin) ==
    IF pin <= kPinMax THEN UtilsRead(pl, pin, PinListWidth) ELSE FALSE

GetIoPort(dev) == Hardware(dev.hardware_).io_port

\* SetIoRegPointers: the third branch takes the address of pind_.
SetIoRegPointers(dev, pin) ==
    IF PinConnectedToPortD(pin)
    THEN [hardware_ |-> AddrPinD, pin_ |-> pin]
    ELSE IF PinConnectedToPortB(pin)
    THEN [hardware_ |-> AddrPinB, pin_ |-> pin - 8]
    ELSE IF PinConnectedToPortC(pin)
    THEN [hardware_ |-> AddrPinD, pin_ |-> pin - 14]
    ELSE dev

SetDirection(dev, regs, direction) ==
    LET hw == Hardware(dev.hardware_)
    IN  IF direction = "kInputPullup"
        THEN [regs EXCEPT ![hw.port_reg] = UtilsSet(@, dev.pin_, RegWidth)]
        ELSE IF direction = "kOutput"
        THEN [regs EXCEPT ![hw.dir_reg] = UtilsSet(@, dev.pin_, RegWidth)]
        ELSE regs

\* GPIO::Init.
GpioInit(dev, pl, regs, pin, direction) ==
    IF PinNumberValid(pin) /\ ~PinReserved(pl, pin)
    THEN LET dev1 == SetIoRegPointers(dev, pin)
         IN  {GpioOut(dev1, UtilsSet(pl, pin, PinListWidth),
                      SetDirection(dev1, regs, direction), "true", "none")}
    ELSE {GpioOut(dev, pl, regs, "false", "none")}

DisableInterrupt(dev, regs) ==
    [regs EXCEPT ![Hardware(dev.hardware_).pcmsk_reg] =
        UtilsClear(@, dev.pin_, RegWidth)]

\* enum class IoPort {kB = PCIE0, kC = PCIE1, kD = PCIE2} as a bit of PCICR.
IoPortBit(io_port) ==
    CASE io_port = "kB" -> "PCIE0"
      [] io_port = "kC" -> "PCIE1"
      [] io_port = "kD" -> "PCIE2"

\* GPIO::EnableInterrupt, GPIO::EnableInterruptsOnIoPort(io_port) and
\* GPIO::DisableInterruptsOnIoPort(io_port) on the I/O registers.  PCICR is
\* the set of the names of its bits that are 1.  The two that enable also
\* set the global interrupt flag, which the caller records.
EnableInterrupt(dev, regs) ==
    LET hw == Hardware(dev.hardware_)
    IN  [regs EXCEPT !["PCICR"] = @ \cup {hw.pcicr_bit},
                     ![hw.pcmsk_reg] = UtilsSet(@, dev.pin_, RegWidth)]

EnableInterruptsOnIoPort(regs, io_port) ==
    [regs EXCEPT !["PCICR"] = @ \cup {IoPortBit(io_port)}]

DisableInterruptsOnIoPort(regs, io_port) ==
    [regs EXCEPT !["PCICR"] = @ \ {IoPortBit(io_port)}]

\* The callback routines of the I/O ports: an array of kNumIoPorts
\* pointers, null at the start.
kNumIoPorts == 2
CallbackIndexPortB == 0
CallbackIndexPortC == 1
CallbackIndexPortD == 2

NoCallbacks(n) == [i \in 0..(n - 1) |-> "nullptr"]

\* GPIO::SetCallbackRoutine.  A store at an index past the end of the
\* array reaches no element of the model.
SetCallbackRoutine(dev, routines, callback_routine) ==
    LET port_reg == Hardware(dev.hardware_).port_reg
        index == CASE port_reg = "PORTB" -> CallbackIndexPortB
                   [] port_reg = "PORTC" -> CallbackIndexPortC
                   [] port_reg = "PORTD" -> CallbackIndexPortD
    IN  IF index < kNumIoPorts
        THEN [routines |-> [routines EXCEPT ![index] = callback_routine],
              ub |-> "none"]
        ELSE [routines |-> routines, ub |-> "out_of_bounds"]

\* GPIO::Disable, which ~GPIO calls.  On an object that is not initialized
\* hardware_ is null and `hardware_->dir_reg` is a load through a null
\* pointer: the access either faults there, or the register pointers it
\* yields reach no register of the model and the function runs on,
\* clearing bit pin_ of pin_list_.
GpioDisable(dev, pl, regs) ==
    IF dev.hardware_ = Null
    THEN {GpioOut(dev, pl, regs, "fault", "null_deref"),
          GpioOut(NoDevice, UtilsClear(pl, dev.pin_, PinListWidth), regs,
                  "void", "null_deref")}
    ELSE LET hw == Hardware(dev.hardware_)
             regs1 == [regs EXCEPT ![hw.dir_reg] =
                          UtilsClear(@, dev.pin_, RegWidth)]
             regs2 == [regs1 EXCEPT ![hw.port_reg] =
                          UtilsClear(@, dev.pin_, RegWidth)]
             pl1 == UtilsClear(pl, dev.pin_, PinListWidth)
             regs3 == DisableInterrupt(dev, regs2)
         IN  {GpioOut(NoDevice, pl1, regs3, "void", "none")}

-----------------------------------------------------------------------------
(* The Timer driver: the static reservation list, the registers and the    *)
(* interrupt counters of the three timer circuits.                         *)

Circuit == {"k0", "k1", "k2"}

\* TimerIndex.
TimerIndex0 == 0
TimerIndex1 == 1
TimerIndex2 == 2

kNumCircuits == 3

\* The addresses of the static Hardware structures.
AddrTimer0 == 1
AddrTimer1 == 2
AddrTimer2 == 3

timer0_hw_ ==
    [counter |-> "timer0", mask_reg |-> "TIMSK0", mask_bit |-> "TOIE0",
     index |-> TimerIndex0]

timer1_hw_ ==
    [counter |-> "timer1", mask_reg |-> "TIMSK1", mask_bit |-> "OCIE1A",
     index |-> TimerIndex1]

timer2_hw_ ==
    [counter |-> "timer2", mask_reg |-> "TIMSK2", mask_bit |-> "TOIE2",
     index |-> TimerIndex2]

\* *hardware_ for a hardware_ that is not null.
TimerHardware(hardware_) ==
    CASE hardware_ = AddrTimer0 -> timer0_hw_
      [] hardware_ = AddrTimer1 -> timer1_hw_
      [] hardware_ = AddrTimer2 -> timer2_hw_

\* A Timer object after Timer(void) = default.
NoTimer ==
    [hardware_ |-> Null, circuit_ |-> "k0", max_count_ |-> 0,
     enabled_ |-> FALSE]

\* The mask registers hold the set of their bits that are 1; the control
\* registers hold the name of the value last stored.
TimerRegistersAtReset ==
    [TCCR0B |-> "0x00", TCCR1B |-> "0x00", TCCR2B |-> "0x00",
     OCR1A |-> "0x00", TIMSK0 |-> {}, TIMSK1 |-> {}, TIMSK2 |-> {}]

\* static_cast<uint32_t>(elapse_time_ms / 0.128 + 0.5).
GetMaxCount(elapse_time_ms) ==
    IF elapse_time_ms > 0 THEN (elapse_time_ms * 125 + 8) \div 16 ELSE 0

\* The machine as a member function of Timer object t sees it.
TimerOut(t, tl, regs, cnt, i, r, u) ==
    [t |-> t, timer_list_ |-> tl, regs |-> regs, counter |-> cnt,
     sei |-> i, ret |-> r, ub |-> u]

\* Timer::Stop.  With hardware_ null, `hardware_->mask_reg` is a load
\* through a null pointer: the access either faults there, or the store
\* reaches no register of the model and the function runs on.
Stop(m) ==
    IF m.t.hardware_ = Null
    THEN {[m EXCEPT !.ret = "fault", !.ub = "null_deref"],
          [m EXCEPT !.t.enabled_ = FALSE, !.ub = "null_deref"]}
    ELSE LET hw == TimerHardware(m.t.hardware_)
         IN  {[m EXCEPT !.regs[hw.mask_reg] = @ \ {hw.mask_bit},
                        !.t.enabled_ = FALSE]}

\* Timer::Start.
Start(m) ==
    LET m1 == [m EXCEPT !.sei = TRUE]
    IN  IF m1.t.max_count_ = 0 THEN {m1}
        ELSE IF m1.t.hardware_ = Null
        THEN {[m1 EXCEPT !.ret = "fault", !.ub = "null_deref"],
              [m1 EXCEPT !.t.enabled_ = TRUE, !.ub = "null_deref"]}
        ELSE LET hw == TimerHardware(m1.t.hardware_)
             IN  {[m1 EXCEPT !.regs[hw.mask_reg] = @ \cup {hw.mask_bit},
                             !.t.enabled_ = TRUE]}

\* Timer::SetElapseTime_ms.
SetElapseTime_ms(m, elapse_time_ms) ==
    { IF m1.ret = "fault" THEN m1
      ELSE [m1 EXCEPT !.t.max_count_ = GetMaxCount(elapse_time_ms)]
      : m1 \in (IF elapse_time_ms = 0 THEN Stop(m) ELSE {m}) }

\* Timer::InitHardware(hardware_, timer_circuit); ret is its return value.
InitHardware(m, timer_circuit) ==
    LET index == CASE timer_circuit = "k0" -> TimerIndex0
                   [] timer_circuit = "k1" -> TimerIndex1
                   [] timer_circuit = "k2" -> TimerIndex2
    IN  IF UtilsRead(m.timer_list_, index, RegWidth)
        THEN [m EXCEPT !.ret = "false"]
        ELSE LET m1 ==
                 CASE timer_circuit = "k0" ->
                        [m EXCEPT !.regs.TCCR0B = "ControlBits::k0",
                                  !.t.hardware_ = AddrTimer0]
                   [] timer_circuit = "k1" ->
                        [m EXCEPT !.regs.TCCR1B = "ControlBits::k1",
                                  !.regs.OCR1A = "kTimer1MaxCount",
                                  !.t.hardware_ = AddrTimer1]
                   [] timer_circuit = "k2" ->
                        [m EXCEPT !.regs.TCCR2B = "ControlBits::k2",
                                  !.t.hardware_ = AddrTimer2]
             IN  [m1 EXCEPT !.timer_list_ =
                                UtilsSet(@, TimerHardware(m1.t.hardware_).index,
                                         RegWidth),
                            !.ret = "true"]

\* Timer::DisableHardware(hardware_, timer_circuit).  The registers of the
\* circuit are zeroed first; with hardware_ null, `hardware->index` is then
\* a load through a null pointer: the access either faults there, or yields
\* some uint8_t (kNumCircuits stands for every value that is no index of a
\* circuit) and the function runs on.
DisableHardware(m, timer_circuit) ==
    LET m1 == CASE timer_circuit = "k0" ->
                     [m EXCEPT !.regs.TCCR0B = "0x00", !.regs.TIMSK0 = {}]
                [] timer_circuit = "k1" ->
                     [m EXCEPT !.regs.TCCR1B = "0x00", !.regs.OCR1A = "0x00",
                               !.regs.TIMSK1 = {}]
                [] timer_circuit = "k2" ->
                     [m EXCEPT !.regs.TCCR2B = "0x00", !.regs.TIMSK2 = {}]
    IN  IF m1.t.hardware_ = Null
        THEN {[m1 EXCEPT !.ret = "fault", !.ub = "null_deref"]}
             \cup
             {[m1 EXCEPT !.timer_list_ = UtilsClear(@, index, RegWidth),
                         !.ub = "null_deref"]
              : index \in 0..kNumCircuits}
        ELSE {[m1 EXCEPT !.timer_list_ =
                             UtilsClear(@, TimerHardware(m1.t.hardware_).index,
                                        RegWidth),
                         !.t.hardware_ = Null]}

\* Timer::Timer(circuit, elapse_time_ms, start) on the machine m, whose t
\* is the object with its default member initializers.
TimerConstruct(m, circuit, elapse_time_ms, start) ==
    LET m1 == [InitHardware([m EXCEPT !.t.circuit_ = circuit], circuit)
                  EXCEPT !.ret = "void"]
    IN  UNION { IF m2.ret = "fault" \/ ~start THEN {m2} ELSE Start(m2)
                : m2 \in SetElapseTime_ms(m1, elapse_time_ms) }

\* Timer::Init.
TimerInit(m, circuit, elapse_time_ms, start) ==
    IF m.t.hardware_ # Null THEN {[m EXCEPT !.ret = "false"]}
    ELSE LET m1 == InitHardware([m EXCEPT !.t.circuit_ = circuit], circuit)
         IN  IF m1.ret = "true"
             THEN UNION { IF m2.ret = "fault" \/ ~start THEN {m2}
                          ELSE Start(m2)
                          : m2 \in SetElapseTime_ms(m1, elapse_time_ms) }
             ELSE {m1}

\* Timer::~Timer.
TimerDestroy(m) ==
    { IF m1.ret = "fault" THEN m1 ELSE [m1 EXCEPT !.t = NoTimer]
      : m1 \in DisableHardware(m, m.t.circuit_) }

\* Timer::Elapsed as it would be without the test of enabled_.
ElapsedWhileDisabled(m) ==
    LET hw == TimerHardware(m.t.hardware_)
    IN  IF m.counter[hw.counter] < m.t.max_count_
        THEN {[m EXCEPT !.ret = "false"]}
        ELSE {[m EXCEPT !.counter[hw.counter] = 0, !.ret = "true"]}

\* Timer::Elapsed on an initialized Timer.
Elapsed(m) ==
    LET hw == TimerHardware(m.t.hardware_)
    IN  IF m.counter[hw.counter] < m.t.max_count_ \/ ~m.t.enabled_
        THEN {[m EXCEPT !.ret = "false"]}
        ELSE {[m EXCEPT !.counter[hw.counter] = 0, !.ret = "true"]}

\* Timer::Restart.
Restart(m) ==
    IF m.t.hardware_ = Null
    THEN {[m EXCEPT !.ret = "fault", !.ub = "null_deref"]}
         \cup {[m1 EXCEPT !.ub = "null_deref"] : m1 \in Start(m)}
    ELSE Start([m EXCEPT !.counter[TimerHardware(m.t.hardware_).counter] = 0])

\* Timer::SetCallback on the array of callback routines; ret is its
\* return value.
SetCallback(t, routines, callback_routine) ==
    IF callback_routine # "nullptr"
    THEN [routines |->
              [routines EXCEPT ![TimerHardware(t.hardware_).index] =
                                   callback_routine],
          ret |-> "true"]
    ELSE [routines |-> routines, ret |-> "false"]

-----------------------------------------------------------------------------
(* The EEPROM driver.  A value of an unsigned type of n bytes is the       *)
(* sequence of its n bytes, the least significant first.                   *)

kAddressWidth == 1024
kAddressMin == 0
kAddressMax == kAddressWidth - 1

\* uint16_t and uint8_t arithmetic, and the width of int on the target of
\* the drivers.
Uint16 == 65536
Uint8 == 256
IntWidth == 16
MaxUint16 == Uint16 - 1

\* sizeof(T) of the unsigned types: uint8_t, uint16_t, uint32_t.
Sizes == {1, 2, 4}

\* A byte of the EEPROM that was never written.
Erased == 255

\* The value of n bytes, all of them b.
Filled(n, b) == [i \in 1..n |-> b]

\* The addresses a client passes: the first, the ones around the end of
\* the EEPROM, and the last uint16_t.
Addresses ==
    {kAddressMin} \cup ((kAddressWidth - AddressMargin)..kAddressWidth)
    \cup {MaxUint16}

\* The bytes of the EEPROM that Write and Read reach from these addresses.
Cells ==
    { c \in kAddressMin..kAddressMax :
        \E a \in Addresses, i \in 0..3 : c = a + i }

\* The machine as the EEPROM driver sees it: the bytes of the EEPROM, the
\* variable `data` refers to, the global interrupt flag, and the addresses
\* stored in EEAR so far.
EepromOut(mem, data, i, acc, r, u) ==
    [mem |-> mem, data |-> data, sei |-> i, accessed |-> acc, ret |-> r,
     ub |-> u]

\* detail::AddressValid<T> as it would be for every T with the bound of
\* a single byte.
AddressValidForByte(size, address) == address <= kAddressWidth - 1

\* detail::AddressValid<T>, with sizeof(T) == size; the subtraction is
\* one of unsigned int.
AddressValid(size, address) ==
    address <= (kAddressWidth + Uint16 - size) % Uint16

\* detail::WriteByte.  An address that is no byte of the EEPROM changes
\* no byte of the model.
WriteByte(e, address, data) ==
    [e EXCEPT !.mem = IF address \in DOMAIN @
                      THEN [@ EXCEPT ![address] = data] ELSE @,
              !.accessed = Append(@, address),
              !.sei = TRUE]

\* detail::ReadByte: the machine after the read and the byte read.
ReadByte(e, address) ==
    [e |-> [e EXCEPT !.accessed = Append(@, address)],
     byte |-> IF address \in DOMAIN e.mem THEN e.mem[address] ELSE Erased]

\* The loop of eeprom::Write from byte i on.
RECURSIVE WriteFrom(_, _, _, _)
WriteFrom(e, address, data, i) ==
    IF i < Len(data)
    THEN WriteFrom(WriteByte(e, (address + i) % Uint16, data[i + 1]),
                   address, data, i + 1)
    ELSE e

\* eeprom::Write<T>; data is the value of sizeof(T) bytes.
Write(e, address, data) ==
    IF ~AddressValid(Len(data), address) THEN [e EXCEPT !.ret = "false"]
    ELSE [WriteFrom(e, address, data, 0) EXCEPT !.ret = "true"]

\* 1 << n.
RECURSIVE Pow2(_)
Pow2(n) == IF n = 0 THEN 1 ELSE 2 * Pow2(n - 1)

\* a | b of two bytes.
RECURSIVE ByteOr(_, _)
ByteOr(a, b) ==
    IF a = 0 THEN b
    ELSE IF b = 0 THEN a
    ELSE (IF a % 2 = 1 \/ b % 2 = 1 THEN 1 ELSE 0)
         + 2 * ByteOr(a \div 2, b \div 2)

\* byte << n, the byte promoted to int.  A product that int cannot hold
\* wraps to a negative int; a count of IntWidth or more is undefined, and
\* yields either 0 or the shift by the count modulo IntWidth.
ShiftLeft(byte, n) ==
    LET wrap(m) == IF m >= Pow2(IntWidth - 1) THEN m - Pow2(IntWidth)
                   ELSE m
    IN  IF n < IntWidth
        THEN {[int |-> wrap((byte * Pow2(n)) % Pow2(IntWidth)),
               ub |-> "none"]}
        ELSE {[int |-> 0, ub |-> "shift_count"],
              [int |-> wrap((byte * Pow2(n % IntWidth)) % Pow2(IntWidth)),
               ub |-> "shift_count"]}

\* static_cast<T>(int) with sizeof(T) == size: the bytes of the int, sign
\* extended, the least significant first.
CastFromInt(int, size) ==
    LET u == (int + Pow2(IntWidth)) % Pow2(IntWidth)
        ext == IF int < 0 THEN Uint8 - 1 ELSE 0
    IN  [i \in 1..size |-> IF i = 1 THEN u % Uint8
                           ELSE IF i = 2 THEN u \div Uint8
                           ELSE ext]

\* The loop of eeprom::Read from byte i on.
RECURSIVE ReadFrom(_, _, _, _)
ReadFrom(e, address, size, i) ==
    IF i < size
    THEN LET r == ReadByte(e, (address + i) % Uint16)
         IN  UNION { ReadFrom(
                       [r.e EXCEPT
                          !.data = [k \in 1..size |->
                                      ByteOr(@[k],
                                             CastFromInt(v.int, size)[k])],
                          !.ub = IF v.ub # "none" THEN v.ub ELSE @],
                       address, size, i + 1)
                     : v \in ShiftLeft(r.byte, 8 * i) }
    ELSE {e}

\* eeprom::Read<T> with sizeof(T) == size; e.data is the variable `data`
\* refers to.
Read(e, address, size) ==
    IF ~AddressValid(size, address) THEN {[e EXCEPT !.ret = "false"]}
    ELSE { [e1 EXCEPT !.ret = "true"]
           : e1 \in ReadFrom([e EXCEPT !.data = Filled(size, 0)],
                             address, size, 0) }

-----------------------------------------------------------------------------
(* The Vector container.  A memory block is allocated or free and holds    *)
(* its elements; an element never stored to is Undef.                      *)

VectorIds == {"target", "source"}
BlockIds == 1..MaxBlocks

\* A Vector after Vector(void) = default.
EmptyVector == [data_ |-> Null, size_ |-> 0]

NoBlock == [alloc |-> FALSE, cells |-> <<>>]

\* The machine as a member function of Vector sees it.
VectorOut(vs, bs, r, u) == [vectors |-> vs, blocks |-> bs, ret |-> r, ub |-> u]

\* The block malloc hands out: the lowest free one.
FreeBlocks(bs) == {b \in BlockIds : ~bs[b].alloc}
FirstFree(bs) == CHOOSE b \in FreeBlocks(bs) : \A c \in FreeBlocks(bs) : b <= c

\* The first n elements of cells, with elements never stored to after them.
Resized(cells, n) ==
    [i \in 1..n |-> IF i <= Len(cells) THEN cells[i] ELSE Undef]

\* detail::Resize<T>(block, new_size), which is realloc(block, n) with n
\* the size of new_size elements: the blocks after the call and the
\* pointer returned.  With block null it is malloc(n), which returns null
\* or a new block.  Otherwise it returns null and leaves the block as it
\* is, or resizes the block in place, or moves it to a new block.  With
\* n == 0 the implementation defines whether it returns a pointer that is
\* not null, or null, and whether it then has freed the block.  A block
\* that is not allocated makes the call undefined.
DetailResize(bs, block, n) ==
    IF block = Null
    THEN {[blocks |-> bs, ptr |-> Null, ub |-> "none"]}
         \cup (IF FreeBlocks(bs) = {} THEN {}
               ELSE {[blocks |-> [bs EXCEPT ![FirstFree(bs)] =
                                     [alloc |-> TRUE,
                                      cells |-> Resized(<<>>, n)]],
                      ptr |-> FirstFree(bs), ub |-> "none"]})
    ELSE IF ~bs[block].alloc
    THEN {[blocks |-> bs, ptr |-> Null, ub |-> "use_after_free"],
          [blocks |-> bs, ptr |-> block, ub |-> "use_after_free"]}
    ELSE {[blocks |-> bs, ptr |-> Null, ub |-> "none"],
          [blocks |-> [bs EXCEPT ![block].cells = Resized(@, n)],
           ptr |-> block, ub |-> "none"]}
         \cup (IF n = 0
               THEN {[blocks |-> [bs EXCEPT ![block] = NoBlock],
                      ptr |-> Null, ub |-> "none"]}
               ELSE {})
         \cup (IF FreeBlocks(bs) = {} THEN {}
               ELSE {[blocks |-> [bs EXCEPT
                                    ![FirstFree(bs)] =
                                        [alloc |-> TRUE,
                                         cells |-> Resized(bs[block].cells, n)],
                                    ![block] = NoBlock],
                      ptr |-> FirstFree(bs), ub |-> "none"]})

\* detail::Delete<T>(block), which is free(block); block = nullptr.  A block
\* that is not allocated makes the call undefined.
DetailDelete(bs, block) ==
    IF block = Null THEN [blocks |-> bs, ub |-> "none"]
    ELSE IF bs[block].alloc
    THEN [blocks |-> [bs EXCEPT ![block] = NoBlock], ub |-> "none"]
    ELSE [blocks |-> bs, ub |-> "double_free"]

\* Vector::Clear.
VectorClear(m, v) ==
    LET d == DetailDelete(m.blocks, m.vectors[v].data_)
    IN  [m EXCEPT !.blocks = d.blocks, !.vectors[v] = EmptyVector,
                  !.ub = d.ub]

\* Vector::Resize.
VectorResize(m, v, new_size) ==
    { IF copy.ptr = Null
      THEN [m EXCEPT !.blocks = copy.blocks, !.ret = "false", !.ub = copy.ub]
      ELSE [m EXCEPT !.blocks = copy.blocks,
                     !.vectors[v] = [data_ |-> copy.ptr, size_ |-> new_size],
                     !.ret = "true", !.ub = copy.ub]
      : copy \in DetailResize(m.blocks, m.vectors[v].data_, new_size) }

\* data_[index] = value in the Vector v; a store past the end of the block
\* is undefined and changes no element of the model.
Store(m, v, index, value) ==
    LET data_ == m.vectors[v].data_
    IN  IF data_ # Null /\ m.blocks[data_].alloc
           /\ index < Len(m.blocks[data_].cells)
        THEN [m EXCEPT !.blocks[data_].cells[index + 1] = value]
        ELSE [m EXCEPT !.ub = "out_of_bounds"]

\* source.data_[index]; a load past the end of the block is undefined and
\* yields a value never stored.
Load(m, source, index) ==
    LET data_ == m.vectors[source].data_
    IN  IF data_ # Null /\ m.blocks[data_].alloc
           /\ index < Len(m.blocks[data_].cells)
        THEN [value |-> m.blocks[data_].cells[index + 1], ub |-> "none"]
        ELSE [value |-> Undef, ub |-> "out_of_bounds"]

\* Vector::PushBack.
VectorPushBack(m, v, value) ==
    { IF m1.ret = "true" /\ m1.ub = "none"
      THEN Store(m1, v, m1.vectors[v].size_ - 1, value)
      ELSE m1
      : m1 \in VectorResize(m, v, m.vectors[v].size_ + 1) }

\* The loop of Vector::Assign(source, offset) from i on.
RECURSIVE AssignFrom(_, _, _, _, _)
AssignFrom(m, v, source, offset, i) ==
    IF offset + i < m.vectors[v].size_ /\ i < m.vectors[source].size_
    THEN LET x == Load(m, source, i)
             m1 == Store(m, v, offset + i, x.value)
         IN  IF x.ub # "none" THEN [m EXCEPT !.ub = x.ub]
             ELSE IF m1.ub # "none" THEN m1
             ELSE AssignFrom(m1, v, source, offset, i + 1)
    ELSE m

\* Vector::Assign(source, offset).
VectorAssign(m, v, source, offset) == AssignFrom(m, v, source, offset, 0)

\* Vector::Copy; ret is its return value.
VectorCopy(m, v, source) ==
    { IF m1.ret = "true" /\ m1.ub = "none"
      THEN VectorAssign(m1, v, source, 0)
      ELSE m1
      : m1 \in VectorResize(m, v, m.vectors[source].size_) }

\* Vector::operator=(const Vector&); ret is what Copy returned.
VectorOperatorAssign(m, v, source) ==
    LET m1 == VectorClear(m, v)
    IN  IF m1.ub # "none" THEN {m1} ELSE VectorCopy(m1, v, source)

\* The elements of the Vector v, front to back.
Elements(vs, bs, v) ==
    [i \in 1..vs[v].size_ |->
        IF vs[v].data_ # Null /\ i <= Len(bs[vs[v].data_].cells)
        THEN bs[vs[v].data_].cells[i] ELSE Undef]

-----------------------------------------------------------------------------
(* The demo program: a button on pin 13 whose pin change interrupts are    *)
(* debounced with timer 0, and timer 1 for the periodic prediction.        *)

\* The static objects: their places among the devices and the timers, the
\* pins and the elapse times they are constructed with.
tmp1 == 1
button1 == 2
timer0 == 1
timer1 == 2
Tmp1Pin == 2
Button1Pin == 13
Timer0ElapseTime_ms == 300
Timer1ElapseTime_ms == 60000

\* The machine d as a member function of its timer i sees it, and the
\* machines after the call from the outcomes of the member function.
OfTimer(d, i) == [d EXCEPT !.t = d.timers[i]]
TimerMember(outcomes, i) == { [m EXCEPT !.timers[i] = m.t] : m \in outcomes }

\* ButtonCallback; level is what button1.Read() returns.  PredictTemp
\* writes to none of the registers of the model.
ButtonCallback(d, level) ==
    LET d1 == [d EXCEPT !.io = DisableInterruptsOnIoPort(
                                   @, GetIoPort(d.gpio[button1]))]
    IN  UNION { IF d2.ret = "fault" \/ ~level THEN {d2}
                ELSE TimerMember(Restart(OfTimer(d2, timer1)), timer1)
                : d2 \in TimerMember(Start(OfTimer(d1, timer0)), timer0) }

\* Timer0Callback as it would be without the test of timer0.Elapsed().
Timer0CallbackEveryOverflow(d) ==
    { [d2 EXCEPT !.sei = TRUE,
                 !.io = EnableInterruptsOnIoPort(
                            @, GetIoPort(d2.gpio[button1]))]
      : d2 \in TimerMember(Stop(OfTimer(d, timer0)), timer0) }

\* Timer0Callback.
Timer0Callback(d) ==
    UNION { IF d1.ret = "true"
            THEN { IF d2.ret = "fault" THEN d2
                   ELSE [d2 EXCEPT !.sei = TRUE,
                                   !.io = EnableInterruptsOnIoPort(
                                              @, GetIoPort(d2.gpio[button1]))]
                   : d2 \in TimerMember(
                              Stop(OfTimer([d1 EXCEPT !.ret = "void"], timer0)),
                              timer0) }
            ELSE {[d1 EXCEPT !.ret = "void"]}
            : d1 \in TimerMember(Elapsed(OfTimer(d, timer0)), timer0) }

\* Timer1Callback.
Timer1Callback(d) ==
    { [d1 EXCEPT !.ret = "void"]
      : d1 \in TimerMember(Elapsed(OfTimer(d, timer1)), timer1) }

\* A call through a pointer of an array of callback routines, made when
\* the pointer is not null.
Invoke(callback_routine, d) ==
    CASE callback_routine = "nullptr" -> {d}
      [] callback_routine = "ButtonCallback" ->
             UNION { ButtonCallback(d, level) : level \in BOOLEAN }
      [] callback_routine = "Timer0Callback" -> Timer0Callback(d)
      [] callback_routine = "Timer1Callback" -> Timer1Callback(d)

-----------------------------------------------------------------------------
(* The calls a client makes on the list L.                                 *)

\* The iterators a client holds: end() and one for every node of L.
Positions == {End} \cup Range(NodesOf(list, heap))

NoRound == [stage |-> "none", list |-> EmptyList, heap |-> EmptyHeap]

Round(name, r) ==
    IF name = "PushBack" /\ r = "true"
    THEN [stage |-> "pushed", list |-> list, heap |-> heap]
    ELSE IF name = "PopBack" /\ round.stage = "pushed"
    THEN [round EXCEPT !.stage = "popped"]
    ELSE NoRound

Op(name, pos, value, new_size, l) ==
    [name |-> name, pos |-> pos, value |-> value, new_size |-> new_size,
     size |-> l.size_]
NoPushes == [valid |-> TRUE, front |-> <<>>, back |-> <<>>]
NotPushed == [valid |-> FALSE, front |-> <<>>, back |-> <<>>]
NoCopy == [values |-> <<>>, ok |-> FALSE]

Pushed(name, value, r) ==
    IF name = "Clear" THEN NoPushes
    ELSE IF name \notin {"PushFront", "PushBack"} THEN NotPushed
    ELSE IF ~pushed.valid \/ r # "true" THEN pushed
    ELSE IF name = "PushFront"
    THEN [pushed EXCEPT !.front = Append(@, value)]
    ELSE [pushed EXCEPT !.back = Append(@, value)]

Call(name, pos, value, new_size, outcomes) ==
    /\ ub = "none"
    /\ \E r \in outcomes :
        /\ list' = r.list
        /\ heap' = r.heap
        /\ ret' = r.ret
        /\ ub' = r.ub
        /\ pushed' = Pushed(name, value, r.ret)
        /\ round' = Round(name, r.ret)
    /\ op' = Op(name, pos, value, new_size, list)
    /\ UNCHANGED <<list2, live2, copied, gpiovars, timervars, sei, othervars>>

DoPushFront == \E v \in Values :
    Call("PushFront", Null, v, 0, PushFront(list, heap, v))

DoPushBack == \E v \in Values :
    Call("PushBack", Null, v, 0, PushBack(list, heap, v))

DoInsert == \E it \in Positions, v \in Values :
    Call("Insert", it, v, 0, Insert(list, heap, it, v))

DoPopFront == Call("PopFront", Null, 0, 0, PopFront(list, heap))

DoPopBack == Call("PopBack", Null, 0, 0, PopBack(list, heap))

DoRemove == \E it \in Positions :
    Call("Remove", it, 0, 0, Remove(list, heap, it))

DoClear == Call("Clear", Null, 0, 0, Clear(list, heap))

DoResize == \E m \in 0..MaxNewSize, v \in Values :
    Call("Resize", Null, v, m, Resize(list, heap, m, v))

DoAssign == \E it \in Positions \ {End}, v \in Values :
    Call("Assign", it, v, 0, Assign(list, heap, it, v))

\* List L2{L}: the members of L2 start at their defaults, then Copy(L).
DoCopyConstruct ==
    /\ ub = "none"
    /\ ~live2
    /\ \E r \in Copy(EmptyList, heap, list) :
        /\ list2' = r.list
        /\ heap' = r.heap
        /\ ub' = r.ub
        /\ copied' = [values |-> ValuesOf(list, heap), ok |-> r.ret = "true"]
    /\ live2' = TRUE
    /\ ret' = "void"
    /\ op' = Op("List(List&)", Null, 0, 0, EmptyList)
    /\ round' = NoRound
    /\ UNCHANGED <<list, pushed, gpiovars, timervars, sei, othervars>>

\* L2 goes out of scope: ~List calls Clear.
DoDestroy2 ==
    /\ ub = "none"
    /\ live2
    /\ \E r \in Clear(list2, heap) :
        /\ list2' = r.list
        /\ heap' = r.heap
        /\ ub' = r.ub
    /\ live2' = FALSE
    /\ copied' = NoCopy
    /\ ret' = "void"
    /\ op' = Op("~List", Null, 0, 0, list2)
    /\ round' = NoRound
    /\ UNCHANGED <<list, pushed, gpiovars, timervars, sei, othervars>>

-----------------------------------------------------------------------------
(* The calls a client makes on its GPIO devices.                           *)

\* The pin numbers a client passes to Init: the first and the last pin of
\* every port, and one past kPinMax.
ClientPins == {D0, D7, B0, B5, C0, C5, kPinMax + 1}

\* No pin: the device is not initialized.
NoPin == -1

GpioOp(name, d, pin) == [name |-> name, dev |-> d, pin |-> pin]

GpioCall(name, d, pin, outcomes) ==
    /\ ub = "none"
    /\ \E r \in outcomes :
        /\ gpio' = [gpio EXCEPT ![d] = r.dev]
        /\ pin_list_' = r.pin_list_
        /\ io' = r.io
        /\ ret' = r.ret
        /\ ub' = r.ub
        /\ held' = [held EXCEPT ![d] =
                       IF name = "GPIO::Init"
                       THEN (IF r.ret = "true" THEN pin ELSE @)
                       ELSE NoPin]
    /\ op' = GpioOp(name, d, pin)
    /\ UNCHANGED <<listvars, timervars, sei, othervars>>

\* GPIO d{pin, direction}, or d.Init(pin, direction) on a device that is
\* not initialized.
DoGpioInit == \E d \in Devices, pin \in ClientPins, direction \in Direction :
    /\ gpio[d].hardware_ = Null
    /\ GpioCall("GPIO::Init", d, pin,
                GpioInit(gpio[d], pin_list_, io, pin, direction))

\* d.Disable(), or d goes out of scope.
DoGpioDisable == \E d \in Devices :
    GpioCall("GPIO::Disable", d, held[d],
             GpioDisable(gpio[d], pin_list_, io))

-----------------------------------------------------------------------------
(* The calls a client makes on its Timer objects, and the interrupts.      *)

TimerOp(name, i, circuit) == [name |-> name, timer |-> i, circuit |-> circuit]

\* The machine as Timer object t sees it at the start of a call.
TimerMachine(t) == TimerOut(t, timer_list_, tregs, counter, sei, "void", "none")

TimerCall(name, i, circuit, outcomes, alive) ==
    /\ ub = "none"
    /\ \E m \in outcomes :
        /\ timers' = [timers EXCEPT ![i] = m.t]
        /\ timer_list_' = m.timer_list_
        /\ tregs' = m.regs
        /\ counter' = m.counter
        /\ sei' = m.sei
        /\ ret' = m.ret
        /\ ub' = m.ub
    /\ tlive' = [tlive EXCEPT ![i] = alive]
    /\ op' = TimerOp(name, i, circuit)
    /\ UNCHANGED <<listvars, gpiovars, othervars>>

\* Timer t;
DoTimerDefault(ids) == \E i \in ids :
    /\ ~tlive[i]
    /\ TimerCall("Timer()", i, "k0", {TimerMachine(NoTimer)}, TRUE)

\* Timer t{circuit, elapse_time_ms, start};
DoTimerConstruct(ids) ==
    \E i \in ids, c \in Circuit, ms \in 0..MaxElapseTime,
       start \in BOOLEAN :
        /\ ~tlive[i]
        /\ TimerCall("Timer", i, c,
                     TimerConstruct(TimerMachine(NoTimer), c, ms, start),
                     TRUE)

DoTimerInit(ids) ==
    \E i \in ids, c \in Circuit, ms \in 0..MaxElapseTime,
       start \in BOOLEAN :
        /\ tlive[i]
        /\ TimerCall("Timer::Init", i, c,
                     TimerInit(TimerMachine(timers[i]), c, ms, start), TRUE)

\* t goes out of scope.
DoTimerDestroy(ids) == \E i \in ids :
    /\ tlive[i]
    /\ TimerCall("~Timer", i, timers[i].circuit_,
                 TimerDestroy(TimerMachine(timers[i])), FALSE)

DoTimerStart(ids) == \E i \in ids :
    /\ tlive[i]
    /\ timers[i].hardware_ # Null
    /\ TimerCall("Timer::Start", i, timers[i].circuit_,
                 Start(TimerMachine(timers[i])), TRUE)

DoTimerStop(ids) == \E i \in ids :
    /\ tlive[i]
    /\ timers[i].hardware_ # Null
    /\ TimerCall("Timer::Stop", i, timers[i].circuit_,
                 Stop(TimerMachine(timers[i])), TRUE)

DoTimerElapsed(ids) == \E i \in ids :
    /\ tlive[i]
    /\ timers[i].hardware_ # Null
    /\ TimerCall("Timer::Elapsed", i, timers[i].circuit_,
                 Elapsed(TimerMachine(timers[i])), TRUE)

\* ISR(TIMER0_OVF_vect), ISR(TIMER1_COMPA_vect), ISR(TIMER2_OVF_vect): run
\* when interrupts are enabled globally and in the mask register of the
\* circuit.  No callback routine is set.
DoTimerISR == \E hw \in {timer0_hw_, timer1_hw_, timer2_hw_} :
    /\ ub = "none"
    /\ sei
    /\ hw.mask_bit \in tregs[hw.mask_reg]
    /\ counter["timer0"] + counter["timer1"] + counter["timer2"] < MaxCounter
    /\ counter' = [counter EXCEPT ![hw.counter] = @ + 1]
    /\ ret' = "void"
    /\ op' = TimerOp("ISR", 0, "k0")
    /\ UNCHANGED <<listvars, gpiovars, othervars, timers, tlive, timer_list_,
                   tregs, sei, ub>>

Init ==
    /\ list = EmptyList
    /\ list2 = EmptyList
    /\ live2 = FALSE
    /\ heap = EmptyHeap
    /\ ub = "none"
    /\ op = Op("List", Null, 0, 0, EmptyList)
    /\ ret = "void"
    /\ round = NoRound
    /\ pushed = NoPushes
    /\ copied = NoCopy
    /\ pin_list_ = {}
    /\ gpio = [d \in Devices |-> NoDevice]
    /\ io = [r \in IoRegisters |-> {}]
    /\ held = [d \in Devices |-> NoPin]
    /\ sei = FALSE
    /\ timer_list_ = {}
    /\ timers = [i \in TimerIds |-> NoTimer]
    /\ tlive = [i \in TimerIds |-> FALSE]
    /\ tregs = TimerRegistersAtReset
    /\ counter = [c \in {"timer0", "timer1", "timer2"} |-> 0]
    /\ callback_routines = NoCallbacks(kNumIoPorts)
    /\ timer_callback_routines = NoCallbacks(kNumCircuits)
    /\ since = 0
    /\ eeprom = [a \in Cells |-> Erased]
    /\ edata = Filled(1, Erased)
    /\ accessed = <<>>
    /\ vectors = [v \in VectorIds |-> EmptyVector]
    /\ blocks = [b \in BlockIds |-> NoBlock]

\* A client of the single list L.
Next ==
    \/ DoPushFront
    \/ DoPushBack
    \/ DoInsert
    \/ DoPopFront
    \/ DoPopBack
    \/ DoRemove
    \/ DoClear
    \/ DoResize

Spec == Init /\ [][Next]_vars

\* A client that also copy-constructs L2 from L, destroys it, and writes to
\* the elements of L through iterators.
NextCopy ==
    \/ DoPushFront
    \/ DoPushBack
    \/ DoInsert
    \/ DoPopFront
    \/ DoPopBack
    \/ DoRemove
    \/ DoClear
    \/ DoResize
    \/ DoAssign
    \/ DoCopyConstruct
    \/ DoDestroy2

SpecCopy == Init /\ [][NextCopy]_vars

\* A client of GPIO objects, none of them initialized at the start.
NextGpio ==
    \/ DoGpioInit
    \/ DoGpioDisable

SpecGpio == Init /\ [][NextGpio]_vars

\* A client of Timer objects, with the timer interrupts.
NextTimer ==
    \/ DoTimerDefault(TimerIds)
    \/ DoTimerConstruct(TimerIds)
    \/ DoTimerInit(TimerIds)
    \/ DoTimerDestroy(TimerIds)
    \/ DoTimerStart(TimerIds)
    \/ DoTimerStop(TimerIds)
    \/ DoTimerElapsed(TimerIds)
    \/ DoTimerISR

SpecTimer == Init /\ [][NextTimer]_vars

\* A client of one Timer object, with the timer interrupts.
OneTimer == {1}

NextElapsed ==
    \/ DoTimerDefault(OneTimer)
    \/ DoTimerConstruct(OneTimer)
    \/ DoTimerInit(OneTimer)
    \/ DoTimerDestroy(OneTimer)
    \/ DoTimerStart(OneTimer)
    \/ DoTimerStop(OneTimer)
    \/ DoTimerElapsed(OneTimer)
    \/ DoTimerISR

SpecElapsed == Init /\ [][NextElapsed]_vars

-----------------------------------------------------------------------------
(* The calls a client makes on the EEPROM driver.                          *)

\* The values a client writes: 0, and the value whose bytes are 0xFF and
\* 0x00 in turn, the least significant being 0xFF.
DataValues(size) ==
    {Filled(size, 0), [i \in 1..size |-> IF i % 2 = 1 THEN Uint8 - 1 ELSE 0]}

EepromOp(name, address, size, data) ==
    [name |-> name, address |-> address, size |-> size, data |-> data]

EepromCall(name, address, size, data, outcomes) ==
    /\ ub = "none"
    /\ \E e \in outcomes :
        /\ eeprom' = e.mem
        /\ edata' = e.data
        /\ accessed' = e.accessed
        /\ sei' = e.sei
        /\ ret' = e.ret
        /\ ub' = e.ub
    /\ op' = EepromOp(name, address, size, data)
    /\ UNCHANGED <<listvars, gpiovars, timervars, demovars, vectorvars>>

\* T data{...}; eeprom::Write<T>(address, data).
DoEepromWrite == \E address \in Addresses, size \in Sizes :
    \E data \in DataValues(size) :
        EepromCall("eeprom::Write", address, size, data,
                   {Write(EepromOut(eeprom, data, sei, <<>>, "void", "none"),
                          address, data)})

\* T data{0xFF...}; eeprom::Read<T>(address, data).
DoEepromRead == \E address \in Addresses, size \in Sizes :
    EepromCall("eeprom::Read", address, size, Filled(size, Erased),
               Read(EepromOut(eeprom, Filled(size, Erased), sei, <<>>,
                              "void", "none"),
                    address, size))

NextEeprom ==
    \/ DoEepromWrite
    \/ DoEepromRead

SpecEeprom == Init /\ [][NextEeprom]_vars

-----------------------------------------------------------------------------
(* The calls a client makes on its two Vector objects.                     *)

VectorOp(name, v, arg) == [name |-> name, vector |-> v, arg |-> arg]

VectorCall(name, v, arg, outcomes) ==
    /\ ub = "none"
    /\ \E m \in outcomes :
        /\ vectors' = m.vectors
        /\ blocks' = m.blocks
        /\ ret' = m.ret
        /\ ub' = m.ub
    /\ op' = VectorOp(name, v, arg)
    /\ UNCHANGED <<listvars, gpiovars, timervars, demovars, eepromvars, sei>>

VectorMachine == VectorOut(vectors, blocks, "void", "none")

DoVectorResize == \E v \in VectorIds, new_size \in 0..MaxVectorSize :
    VectorCall("Vector::Resize", v, new_size,
               VectorResize(VectorMachine, v, new_size))

DoVectorPushBack == \E v \in VectorIds, value \in Values :
    /\ vectors[v].size_ < MaxVectorSize
    /\ VectorCall("Vector::PushBack", v, value,
                  VectorPushBack(VectorMachine, v, value))

\* v = source, with source possibly v itself.
DoVectorOperatorAssign == \E v \in VectorIds, source \in VectorIds :
    VectorCall("Vector::operator=", v, source,
               VectorOperatorAssign(VectorMachine, v, source))

DoVectorClear == \E v \in VectorIds :
    VectorCall("Vector::Clear", v, 0, {VectorClear(VectorMachine, v)})

NextVector ==
    \/ DoVectorResize
    \/ DoVectorPushBack
    \/ DoVectorOperatorAssign
    \/ DoVectorClear

SpecVector == Init /\ [][NextVector]_vars

-----------------------------------------------------------------------------
(* The demo program and its interrupts.                                    *)

\* The machine as the demo program sees it: the machine of a Timer member
\* function, with the timers, the devices and the I/O registers.
DemoMachine ==
    [t |-> NoTimer, timer_list_ |-> timer_list_, regs |-> tregs,
     counter |-> counter, sei |-> sei, ret |-> "void", ub |-> "none",
     timers |-> timers, gpio |-> gpio, io |-> io]

DemoOp(name) == [name |-> name]

\* An interrupt service routine of the demo program, from its entry to its
\* return; n is the number of timer 0 overflow interrupts since the last
\* ButtonCallback once it has returned.  An interrupt taken after a
\* routine has set the global interrupt flag writes to none of the
\* registers and members the rest of that routine reads, and is taken here
\* after the routine.
DemoISR(name, outcomes, n) ==
    /\ ub = "none"
    /\ sei
    /\ \E d \in outcomes :
        /\ timers' = d.timers
        /\ timer_list_' = d.timer_list_
        /\ tregs' = d.regs
        /\ counter' = d.counter
        /\ gpio' = d.gpio
        /\ io' = d.io
        /\ sei' = d.sei
        /\ ret' = d.ret
        /\ ub' = d.ub
    /\ op' = DemoOp(name)
    /\ since' = n
    /\ UNCHANGED <<listvars, eepromvars, vectorvars, pin_list_, held, tlive,
                   callback_routines, timer_callback_routines>>

\* The static objects are constructed, then main calls Setup: timer1 is
\* started, the three callback routines are set and the pin change
\* interrupt of button1 is enabled.  The training of the model, the serial
\* port and the watchdog write to none of the registers of the model.
DoSetup ==
    /\ ub = "none"
    /\ ~tlive[timer0]
    /\ \E g1 \in GpioInit(NoDevice, pin_list_, io, Tmp1Pin, "kInput") :
       \E g2 \in GpioInit(NoDevice, g1.pin_list_, g1.io, Button1Pin,
                          "kInputPullup") :
       \E m0 \in TimerConstruct(TimerMachine(NoTimer), "k0",
                                Timer0ElapseTime_ms, FALSE) :
       \E m1 \in TimerConstruct([m0 EXCEPT !.t = NoTimer], "k1",
                                Timer1ElapseTime_ms, FALSE) :
       \E m2 \in Start(m1) :
        LET c0 == SetCallbackRoutine(g2.dev, callback_routines,
                                     "ButtonCallback")
            c1 == SetCallback(m0.t, timer_callback_routines,
                              "Timer0Callback")
            c2 == SetCallback(m2.t, c1.routines, "Timer1Callback")
        IN  /\ gpio' = [gpio EXCEPT ![tmp1] = g1.dev, ![button1] = g2.dev]
            /\ held' = [held EXCEPT ![tmp1] = Tmp1Pin,
                                    ![button1] = Button1Pin]
            /\ pin_list_' = g2.pin_list_
            /\ io' = EnableInterrupt(g2.dev, g2.io)
            /\ timers' = [timers EXCEPT ![timer0] = m0.t, ![timer1] = m2.t]
            /\ tlive' = [tlive EXCEPT ![timer0] = TRUE, ![timer1] = TRUE]
            /\ timer_list_' = m2.timer_list_
            /\ tregs' = m2.regs
            /\ counter' = m2.counter
            /\ sei' = TRUE
            /\ callback_routines' = c0.routines
            /\ timer_callback_routines' = c2.routines
            /\ ub' = c0.ub
    /\ ret' = "void"
    /\ op' = DemoOp("Setup")
    /\ UNCHANGED <<listvars, eepromvars, vectorvars, since>>

\* ISR(PCINT0_vect): a pin of port B whose bit of PCMSK0 is set changes
\* while the pin change interrupts of the port are enabled.
DoPinChangeISR ==
    /\ "PCIE0" \in io["PCICR"]
    /\ io["PCMSK0"] # {}
    /\ DemoISR("ISR(PCINT0_vect)",
               Invoke(callback_routines[CallbackIndexPortB], DemoMachine),
               IF callback_routines[CallbackIndexPortB] = "ButtonCallback"
               THEN 0 ELSE since)

\* ISR(TIMER0_OVF_vect).
DoTimer0ISR ==
    /\ "TOIE0" \in tregs.TIMSK0
    /\ DemoISR("ISR(TIMER0_OVF_vect)",
               Invoke(timer_callback_routines[TimerIndex0],
                      [DemoMachine EXCEPT !.counter["timer0"] = @ + 1]),
               since + 1)

\* ISR(TIMER1_COMPA_vect), as long as fewer than MaxCounter of its
\* interrupts are counted.
DoTimer1ISR ==
    /\ "OCIE1A" \in tregs.TIMSK1
    /\ counter["timer1"] < MaxCounter
    /\ DemoISR("ISR(TIMER1_COMPA_vect)",
               Invoke(timer_callback_routines[TimerIndex1],
                      [DemoMachine EXCEPT !.counter["timer1"] = @ + 1]),
               since)

NextDemo ==
    \/ DoSetup
    \/ DoPinChangeISR
    \/ DoTimer0ISR
    \/ DoTimer1ISR

\* Timer 0 overflow interrupts keep occurring while timer 0 is enabled.
SpecDemo == Init /\ [][NextDemo]_vars /\ WF_vars(DoTimer0ISR)

-----------------------------------------------------------------------------
(* Properties of the list.                                                 *)

\* The structural invariant of a list: size_ is 0 exactly when both first_
\* and last_ are null; otherwise first_ has no previous node, last_ has no
\* next node, size_ - 1 steps of next lead from first_ to last_ and
\* size_ - 1 steps of previous lead from last_ to first_.
WellFormed(l, h) ==
    /\ (l.size_ = 0) <=> (l.first_ = Null /\ l.last_ = Null)
    /\ l.size_ >= 1 =>
        /\ l.first_ \in Nodes
        /\ l.last_ \in Nodes
        /\ h.previous[l.first_] = Null
        /\ h.next[l.last_] = Null
        /\ StepNext(h, l.first_, l.size_ - 1) = l.last_
        /\ StepPrevious(h, l.last_, l.size_ - 1) = l.first_

\* s without its i-th element.
Without(s, i) == SubSeq(s, 1, i - 1) \o SubSeq(s, i + 1, Len(s))

\* s with v placed before its i-th element.
WithBefore(s, i, v) == SubSeq(s, 1, i - 1) \o <<v>> \o SubSeq(s, i, Len(s))

\* The index of node n in the front-to-back order of l (0 when absent).
IndexOf(l, h, n) ==
    LET ns == NodesOf(l, h)
    IN  IF n \in Range(ns) THEN CHOOSE i \in 1..Len(ns) : ns[i] = n ELSE 0

Reverse(s) == [i \in 1..Len(s) |-> s[Len(s) + 1 - i]]

\* C1: after every sequence of calls with valid positions the structural
\* invariant holds of L.
C1_StructuralInvariant == WellFormed(list, heap)

\* C2: Remove at an iterator to a node of the list returns true, decrements
\* size_ by one, frees exactly that node, and leaves the other values in
\* their order.
C2_RemoveAtNode ==
    [][(op'.name = "Remove" /\ op'.pos # End) =>
        /\ ret' = "true"
        /\ list'.size_ = list.size_ - 1
        /\ heap'.allocated = heap.allocated \ {op'.pos}
        /\ ValuesOf(list', heap') =
               Without(ValuesOf(list, heap), IndexOf(list, heap, op'.pos))
      ]_vars

\* C3: Insert at an iterator to a node of the list, when the allocation
\* succeeds, returns true, increments size_ by one, places the value
\* immediately before the element at the iterator, and the iterator still
\* references that element.
C3_InsertAtNode ==
    [][(op'.name = "Insert" /\ op'.pos # End
            /\ heap'.allocated # heap.allocated) =>
        /\ ret' = "true"
        /\ list'.size_ = list.size_ + 1
        /\ ValuesOf(list', heap') =
               WithBefore(ValuesOf(list, heap),
                          IndexOf(list, heap, op'.pos), op'.value)
        /\ IndexOf(list', heap', op'.pos) = IndexOf(list, heap, op'.pos) + 1
        /\ heap'.data[op'.pos] = heap.data[op'.pos]
      ]_vars

\* C4: the nodes allocated and not yet freed are exactly the nodes reachable
\* from first_ by next links (of L, and of L2 while it lives, which share no
\* node); after Clear none is left to L, after ~List none to L2.
C4_AllocatedIsReachable ==
    /\ heap.allocated =
           Range(NodesOf(list, heap)) \cup Range(NodesOf(list2, heap))
    /\ Range(NodesOf(list, heap)) \cap Range(NodesOf(list2, heap)) = {}
    /\ op.name = "Clear" => heap.allocated = Range(NodesOf(list2, heap))
    /\ op.name = "~List" => heap.allocated = Range(NodesOf(list, heap))

\* C5: Insert and Remove at the end-sentinel return false and change
\* nothing: no node allocated or freed, size_, first_, last_, every link
\* and every value as before.
C5_SentinelRejected ==
    [][(op'.name \in {"Insert", "Remove"} /\ op'.pos = End) =>
        /\ ret' = "false"
        /\ list' = list
        /\ heap' = heap
        /\ ub' = "none"
      ]_vars

C5_Witness ==
    /\ op.name = "Remove"
    /\ op.pos = End
    /\ ret = "false"
    /\ op.size = 2
    /\ list.size_ = 2

\* C6: while L2 lives it has the size and the values, in order, that L had
\* when L2 was copied from it, in nodes that are not nodes of L, whatever
\* was done to L since.
C6_DeepCopyIsolated ==
    live2 =>
        /\ list2.size_ = Len(copied.values)
        /\ ValuesOf(list2, heap) = copied.values
        /\ Range(NodesOf(list2, heap)) \cap Range(NodesOf(list, heap)) = {}
        /\ Range(NodesOf(list2, heap)) \subseteq heap.allocated

\* C7 as stated: Resize to a smaller size returns true, leaves size_ at
\* new_size and keeps the new_size front values.
C7_ShrinkKeepsFront ==
    [][(op'.name = "Resize" /\ op'.new_size < list.size_) =>
        /\ ret' = "true"
        /\ list'.size_ = op'.new_size
        /\ ValuesOf(list', heap') =
               SubSeq(ValuesOf(list, heap), 1, op'.new_size)
      ]_vars

\* C7 as amended: Resize to a smaller size returns true, leaves size_ at
\* new_size and keeps the new_size back values, in their order.
C7_ShrinkKeepsBack ==
    [][(op'.name = "Resize" /\ op'.new_size < list.size_) =>
        /\ ret' = "true"
        /\ list'.size_ = op'.new_size
        /\ ValuesOf(list', heap') =
               SubSeq(ValuesOf(list, heap),
                      list.size_ - op'.new_size + 1, list.size_)
        /\ WellFormed(list', heap')
      ]_vars

C7_Witness ==
    /\ op.name = "Resize"
    /\ op.new_size = 2
    /\ op.size = 3
    /\ ret = "true"
    /\ ValuesOf(list, heap) = <<2, 1>>

\* C8: from an empty list, after any interleaving of PushFront and PushBack
\* calls, size_ is the number of calls that returned true and iteration
\* yields the PushFront values in reverse call order, then the PushBack
\* values in call order.
C8_PushOrder ==
    pushed.valid =>
        /\ list.size_ = Len(pushed.front) + Len(pushed.back)
        /\ ValuesOf(list, heap) = Reverse(pushed.front) \o pushed.back

C8_Witness ==
    /\ pushed.valid
    /\ pushed.front = <<1, 2>>
    /\ pushed.back = <<1>>
    /\ ValuesOf(list, heap) = <<2, 1, 1>>

\* C9: a successful PushBack immediately followed by PopBack restores the
\* size and the values the list had before, and the structural invariant
\* holds again.
C9_PushBackPopBack ==
    round.stage = "popped" =>
        /\ list.size_ = round.list.size_
        /\ ValuesOf(list, heap) = ValuesOf(round.list, round.heap)
        /\ WellFormed(list, heap)

C9_Witness ==
    /\ round.stage = "popped"
    /\ op.name = "PopBack"
    /\ round.list.size_ = 2
    /\ list.size_ = 2

C11_PopAtMostOne ==
    [][(op'.name \in {"PopFront", "PopBack"} /\ list.size_ <= 1) =>
        /\ list' = EmptyList
        /\ ub' = "none"
        /\ list.size_ = 0 => heap' = heap
        /\ list.size_ = 1 =>
               heap'.allocated = heap.allocated \ {list.first_}
      ]_vars

C11_Witness ==
    /\ op.name = "PopFront"
    /\ op.size = 0
    /\ list = EmptyList
    /\ ub = "none"

\* C12: PushFront and PushBack return false exactly when the allocation of
\* the node fails (no block is handed out), and then size_, first_, last_,
\* every link and every value are as before.
C12_PushFailure ==
    [][op'.name \in {"PushFront", "PushBack"} =>
        /\ ret' \in {"true", "false"}
        /\ (ret' = "false") <=> (heap'.allocated = heap.allocated)
        /\ ret' = "false" => (list' = list /\ heap' = heap /\ ub' = "none")
      ]_vars

C12_Witness ==
    /\ op.name = "PushBack"
    /\ ret = "false"
    /\ op.size = 2
    /\ list.size_ = 2
    /\ Cardinality(heap.allocated) = 2

\* k copies of v.
Fill(k, v) == [i \in 1..k |-> v]

\* The number of blocks handed out by the step.
Allocations == Cardinality(heap'.allocated) - Cardinality(heap.allocated)

\* C13: Resize to a size m not below the size n, when all m - n allocations
\* succeed, returns true, leaves size_ at m, keeps the n prior values in
\* order at the front and appends m - n copies of the fill value.
C13_GrowAllSucceed ==
    [][(op'.name = "Resize" /\ op'.new_size >= list.size_
            /\ Allocations = op'.new_size - list.size_) =>
        /\ ret' = "true"
        /\ list'.size_ = op'.new_size
        /\ ValuesOf(list', heap') =
               ValuesOf(list, heap)
                   \o Fill(op'.new_size - list.size_, op'.value)
      ]_vars

C13_Witness ==
    /\ op.name = "Resize"
    /\ op.size = 1
    /\ op.new_size = 3
    /\ op.value = 2
    /\ ret = "true"
    /\ ValuesOf(list, heap) = <<1, 2, 2>>

\* C14: when Resize grows from size n to m and the k-th allocation fails
\* (k - 1 blocks are handed out, k - 1 < m - n), it returns false with
\* size_ at n + k - 1, the n prior values followed by k - 1 copies of the
\* fill value, and the structural invariant holds.
C14_GrowFailsAtKth ==
    [][(op'.name = "Resize" /\ op'.new_size > list.size_
            /\ Allocations < op'.new_size - list.size_) =>
        /\ ret' = "false"
        /\ list'.size_ = list.size_ + Allocations
        /\ ValuesOf(list', heap') =
               ValuesOf(list, heap) \o Fill(Allocations, op'.value)
        /\ WellFormed(list', heap')
      ]_vars

C14_Witness ==
    /\ op.name = "Resize"
    /\ op.size = 1
    /\ op.new_size = 3
    /\ op.value = 2
    /\ ret = "false"
    /\ list.size_ = 2
    /\ ValuesOf(list, heap) = <<1, 2>>

\* C15: while the calls stayed within defined behaviour, begin() equals
\* end() exactly when size_ is 0; stepping from begin() with operator++
\* dereferences to the values in order and first equals end() after exactly
\* size_ steps; `it += k` leaves the iterator where k single steps do; and
\* from the element at index i, `it += k` then `it -= k` with
\* k <= size_ - 1 - i is back at the same node.
C15_Iterators ==
    ub = "none" =>
        LET n == list.size_
            at(i) == Increments(heap, Begin(list), i)
            expected == Reverse(pushed.front) \o pushed.back
        IN  /\ Equal(Begin(list), End) <=> (n = 0)
            /\ \A i \in 0..n : Equal(at(i), End) <=> (i = n)
            /\ \A i \in 0..(n - 1) :
                    /\ Deref(heap, at(i)) = ValuesOf(list, heap)[i + 1]
                    /\ pushed.valid => Deref(heap, at(i)) = expected[i + 1]
            /\ \A i \in 0..n : \A k \in 0..(n - i) :
                    Equal(PlusAssign(heap, at(i), k, 0),
                          Increments(heap, at(i), k))
            /\ \A i \in 0..(n - 1) : \A k \in 0..(n - 1 - i) :
                    Equal(MinusAssign(heap, PlusAssign(heap, at(i), k, 0),
                                      k, 0),
                          at(i))

C15_Witness ==
    /\ ub = "none"
    /\ list.size_ = 3
    /\ pushed.valid
    /\ ValuesOf(list, heap) = <<2, 1, 2>>
    /\ PlusAssign(heap, Begin(list), 2, 0) = list.last_
    /\ PlusAssign(heap, Begin(list), 3, 0) = End
    /\ MinusAssign(heap, list.last_, 2, 0) = Begin(list)

-----------------------------------------------------------------------------
(* Properties of the GPIO driver.                                          *)

\* The devices initialized on pin p.
HoldersOf(h, p) == {d \in Devices : h[d] = p}

\* C16: no two initialized devices are bound to the same pin; Init returns
\* false and binds nothing when the pin is above kPinMax or held by an
\* initialized device, and returns true and marks the pin reserved
\* otherwise.
C16_PinExclusive ==
    [][/\ \A p \in kPinMin..kPinMax : Cardinality(HoldersOf(held', p)) <= 1
       /\ op'.name = "GPIO::Init" =>
            IF op'.pin > kPinMax \/ HoldersOf(held, op'.pin) # {}
            THEN /\ ret' = "false"
                 /\ gpio' = gpio
                 /\ pin_list_' = pin_list_
                 /\ io' = io
            ELSE /\ ret' = "true"
                 /\ PinReserved(pin_list_', op'.pin)
      ]_vars

\* C17: Disable on a device initialized on pin p makes PinReserved(p)
\* false and leaves the status of every other pin as it was.
C17_DisableReleasesPin ==
    [][(op'.name = "GPIO::Disable" /\ held[op'.dev] # NoPin) =>
        /\ ~PinReserved(pin_list_', held[op'.dev])
        /\ \A q \in (kPinMin..kPinMax) \ {held[op'.dev]} :
               PinReserved(pin_list_', q) = PinReserved(pin_list_, q)
      ]_vars

\* C18: a successful Init on pin p binds the device to port D, bit p, for
\* D0..D7, to port B, bit p - B0, for B0..B5, and to port C, bit p - C0,
\* for C0..C5, and GetIoPort() reports that port.
C18_PortBinding ==
    [][(op'.name = "GPIO::Init" /\ ret' = "true") =>
        LET p == op'.pin
            dev == gpio'[op'.dev]
        IN  /\ PinConnectedToPortD(p) =>
                /\ dev.hardware_ = AddrPinD
                /\ dev.pin_ = p - D0
                /\ GetIoPort(dev) = "kD"
            /\ PinConnectedToPortB(p) =>
                /\ dev.hardware_ = AddrPinB
                /\ dev.pin_ = p - B0
                /\ GetIoPort(dev) = "kB"
            /\ PinConnectedToPortC(p) =>
                /\ dev.hardware_ = AddrPinC
                /\ dev.pin_ = p - C0
                /\ GetIoPort(dev) = "kC"
      ]_vars

-----------------------------------------------------------------------------
(* Properties of the Timer driver.                                         *)

\* The Timer objects of ts, alive by lv, that hold the circuit of hw.
TimersHolding(ts, lv, hw) ==
    {i \in TimerIds : /\ lv[i]
                      /\ ts[i].hardware_ # Null
                      /\ TimerHardware(ts[i].hardware_) = hw}

\* The bit of timer_list_ that InitHardware reads for a circuit.
CircuitIndex(timer_circuit) ==
    CASE timer_circuit = "k0" -> TimerIndex0
      [] timer_circuit = "k1" -> TimerIndex1
      [] timer_circuit = "k2" -> TimerIndex2

\* C19: every circuit is held by at most one Timer and its bit of
\* timer_list_ is set exactly when some Timer holds it; Init returns false
\* and reserves nothing when the circuit is reserved or the Timer is
\* already initialized.
C19_CircuitExclusive ==
    [][/\ \A hw \in {timer0_hw_, timer1_hw_, timer2_hw_} :
            /\ Cardinality(TimersHolding(timers', tlive', hw)) <= 1
            /\ UtilsRead(timer_list_', hw.index, RegWidth)
                   <=> TimersHolding(timers', tlive', hw) # {}
       /\ (/\ op'.name = "Timer::Init"
           /\ \/ timers[op'.timer].hardware_ # Null
              \/ UtilsRead(timer_list_, CircuitIndex(op'.circuit), RegWidth))
          => (ret' = "false" /\ timer_list_' = timer_list_)
      ]_vars

\* C20: Elapsed on an initialized Timer returns true exactly when the
\* Timer is enabled and the counter of its circuit is at least max_count_,
\* and then the counter is 0; when it returns false the counter is as
\* before.
C20_Elapsed ==
    [][op'.name = "Timer::Elapsed" =>
        LET t == timers[op'.timer]
            c == TimerHardware(t.hardware_).counter
        IN  /\ ret' \in {"true", "false"}
            /\ (ret' = "true") <=> (t.enabled_ /\ counter[c] >= t.max_count_)
            /\ ret' = "true" => counter' = [counter EXCEPT ![c] = 0]
            /\ ret' = "false" => counter' = counter
            /\ timers' = timers
      ]_vars

C20_Witness ==
    /\ op.name = "Timer::Elapsed"
    /\ ret = "true"
    /\ timers[op.timer].enabled_
    /\ timers[op.timer].max_count_ = GetMaxCount(1)
    /\ counter[TimerHardware(timers[op.timer].hardware_).counter] = 0

-----------------------------------------------------------------------------
(* Properties of the demo program.                                         *)

\* The pin change interrupts of the port of button1 are disabled after
\* Setup has enabled them.
Debouncing ==
    /\ callback_routines[CallbackIndexPortB] = "ButtonCallback"
    /\ IoPortBit(GetIoPort(gpio[button1])) \notin io["PCICR"]

\* C21: in the demo program, after every pin change interrupt on the port
\* of button1 the pin change interrupts of that port are disabled; they stay
\* disabled as long as timer 0 has taken fewer than max_count_ overflow
\* interrupts since that interrupt, and are enabled again by the overflow
\* interrupt that is number max_count_, with timer 0 stopped and its
\* counter at 0; with timer 0 overflow interrupts occurring as long as
\* they are enabled, the interrupts of the port are always eventually
\* enabled again.
C21_Debounce ==
    /\ [][ /\ op'.name = "ISR(PCINT0_vect)" => Debouncing' /\ since' = 0
           /\ Debouncing /\ since' < timers[timer0].max_count_
                => Debouncing'
           /\ Debouncing /\ since' = timers[timer0].max_count_
                => ~Debouncing'
           /\ Debouncing /\ ~Debouncing'
                => /\ op'.name = "ISR(TIMER0_OVF_vect)"
                   /\ since' = timers'[timer0].max_count_
                   /\ since' = GetMaxCount(Timer0ElapseTime_ms)
                   /\ ~timers'[timer0].enabled_
                   /\ "TOIE0" \notin tregs'.TIMSK0
                   /\ counter'["timer0"] = 0 ]_vars
    /\ (Debouncing ~> ~Debouncing)

\* A debounce has ended: the overflow interrupt that is number max_count_
\* since a ButtonCallback has enabled the interrupts of the port again.
C21_Witness ==
    /\ op.name = "ISR(TIMER0_OVF_vect)"
    /\ since = GetMaxCount(Timer0ElapseTime_ms)
    /\ ~Debouncing
    /\ ~timers[timer0].enabled_
    /\ counter["timer0"] = 0

-----------------------------------------------------------------------------
(* Properties of the EEPROM driver.                                        *)

\* C22: for every address and every unsigned type of 1, 2 or 4 bytes,
\* eeprom::Write and eeprom::Read return false when
\* address + sizeof(T) - 1 > 1023, and then store no address in EEAR,
\* change no byte of the EEPROM, and Read leaves its variable as it was;
\* otherwise they return true and access exactly the sizeof(T) byte
\* addresses address, address + 1, ..., all of them in 0..1023.
C22_AddressValid ==
    [][ op'.name \in {"eeprom::Write", "eeprom::Read"} =>
          IF op'.address + op'.size - 1 > kAddressMax
          THEN /\ ret' = "false"
               /\ accessed' = <<>>
               /\ eeprom' = eeprom
               /\ op'.name = "eeprom::Read" => edata' = op'.data
          ELSE /\ ret' = "true"
               /\ accessed' = [i \in 1..op'.size |-> op'.address + i - 1]
               /\ \A i \in 1..op'.size :
                     accessed'[i] \in kAddressMin..kAddressMax ]_vars

\* A Read of four bytes at 1021 has failed and left its variable as it
\* was, where the four bytes at 1020 can be read.
C22_Witness ==
    /\ op.name = "eeprom::Read"
    /\ op.size = 4
    /\ op.address = kAddressMax - 2
    /\ ret = "false"
    /\ edata = Filled(4, Erased)
    /\ AddressValid(4, kAddressMax - 3)

-----------------------------------------------------------------------------
(* Properties of the Vector container.                                     *)

\* C23: whenever Vector::Resize returns false, for every new_size, 0 and
\* the current size included, the size, the elements and the memory block
\* of the vector are as they were and the block is still allocated; and a
\* PushBack that returns false leaves the vector as it was.
C23_ResizeFailure ==
    [][ /\ op'.name \in {"Vector::Resize", "Vector::PushBack"}
        /\ ret' = "false"
        => /\ vectors'[op'.vector] = vectors[op'.vector]
           /\ Elements(vectors', blocks', op'.vector)
                = Elements(vectors, blocks, op'.vector)
           /\ vectors'[op'.vector].data_ # Null
                => /\ blocks'[vectors'[op'.vector].data_].alloc
                   /\ blocks'[vectors'[op'.vector].data_]
                        = blocks[vectors[op'.vector].data_] ]_vars

\* C24: after target = source with the allocation succeeding, target has
\* the size and the elements, in their order, that source had before, and
\* source is as it was, also when target and source are the same object.
C24_Assignment ==
    [][ /\ op'.name = "Vector::operator="
        /\ ret' = "true"
        => /\ vectors'[op'.vector].size_ = vectors[op'.arg].size_
           /\ Elements(vectors', blocks', op'.vector)
                = Elements(vectors, blocks, op'.arg)
           /\ vectors'[op'.arg].size_ = vectors[op'.arg].size_
           /\ Elements(vectors', blocks', op'.arg)
                = Elements(vectors, blocks, op'.arg) ]_vars

=============================================================================
